---- MODULE Spec2Model ----
(***************************************************************************)
(* Extraction and normalization engine of the LinkedIn "wrapped" backend:  *)
(* the value normalizers, the per-sheet extractors, the orchestrator       *)
(* process_linkedin_file, the in-memory store and the retrieval views.     *)
(*                                                                         *)
(* Text is a sequence of one-character strings.  A float is a record       *)
(* [c, m]: c = "fin" with m the value in thousandths, c = "inf" with m the *)
(* sign, or c = "nan".  An optional value is a sequence of length <= 1:    *)
(* None is <<>>, a present value x is <<x>>.  A call returns Ok(v) or      *)
(* Raise(exc, msg, names), exc being the Python exception class.           *)
(***************************************************************************)
EXTENDS Integers, Sequences, FiniteSets, TLC

VARIABLES
    store,   \* _file_data_store: file id -> stored bundle
    task,    \* the upload requests in flight, suspended at `await file.read()`
    nextId,  \* number of file ids handed out by uuid4 so far
    resp,    \* the last response returned to a caller; for a retrieval, with
             \* the stored entry the request saw (None for an unknown id)
    arg,     \* input of the unit-level call under study
    ret      \* its result, <<>> before the call

vars == <<store, task, nextId, resp, arg, ret>>

\* ------------------------------------------------------------ bounds
MaxUploads == 2
MaxRows == 3

\* ------------------------------------------------------------ results
None == <<>>
Some(x) == <<x>>

\* the value x bound to a name for the code that follows
With(x, K(_)) == K(x)

Ok(v) == [ok |-> TRUE, v |-> v]
Raise(exc, msg, names) == [ok |-> FALSE, exc |-> exc, msg |-> msg, names |-> names]

\* the code that follows a call runs on its value; an exception leaves it
Then(r, K(_)) == IF r.ok THEN K(r.v) ELSE r

\* `except ValueError as e: raise ValueError(f"<tag>: {e}")`: a ValueError is
\* re-raised with the tag in front, every other exception passes through.
RewrapValueError(r, tag) ==
    IF ~r.ok /\ r.exc = "ValueError"
    THEN Raise("ValueError", <<tag>> \o r.msg, r.names) ELSE r

\* `except Exception as e: raise ValueError(f"<tag>: {e}")`
RewrapException(r, tag) ==
    IF ~r.ok THEN Raise("ValueError", <<tag>> \o r.msg, r.names) ELSE r

\* ------------------------------------------------------------ text
Digit == {"0", "1", "2", "3", "4", "5", "6", "7", "8", "9"}
DigitVal(c) ==
    CASE c = "0" -> 0 [] c = "1" -> 1 [] c = "2" -> 2 [] c = "3" -> 3
      [] c = "4" -> 4 [] c = "5" -> 5 [] c = "6" -> 6 [] c = "7" -> 7
      [] c = "8" -> 8 [] c = "9" -> 9
DigitChar(n) ==
    CASE n = 0 -> "0" [] n = 1 -> "1" [] n = 2 -> "2" [] n = 3 -> "3"
      [] n = 4 -> "4" [] n = 5 -> "5" [] n = 6 -> "6" [] n = 7 -> "7"
      [] n = 8 -> "8" [] n = 9 -> "9"

Whitespace == {" "}

RECURSIVE LStrip(_)
LStrip(s) == IF s # <<>> /\ Head(s) \in Whitespace THEN LStrip(Tail(s)) ELSE s

RECURSIVE RStrip(_)
RStrip(s) ==
    IF s # <<>> /\ s[Len(s)] \in Whitespace
    THEN RStrip(SubSeq(s, 1, Len(s) - 1)) ELSE s

\* str.strip()
Strip(s) == RStrip(LStrip(s))

\* str.replace(c, "") for a one-character c
Remove(s, c) == SelectSeq(s, LAMBDA x : x # c)

\* str.lower()
UpperToLower ==
    [A |-> "a", B |-> "b", C |-> "c", D |-> "d", E |-> "e", F |-> "f", G |-> "g",
     H |-> "h", I |-> "i", J |-> "j", K |-> "k", L |-> "l", M |-> "m", N |-> "n",
     O |-> "o", P |-> "p", Q |-> "q", R |-> "r", S |-> "s", T |-> "t", U |-> "u",
     V |-> "v", W |-> "w", X |-> "x", Y |-> "y", Z |-> "z"]
LowerChar(c) == IF c \in DOMAIN UpperToLower THEN UpperToLower[c] ELSE c
Lower(s) == [i \in 1..Len(s) |-> LowerChar(s[i])]

StartsAt(s, pat, i) ==
    /\ i >= 1
    /\ i + Len(pat) - 1 <= Len(s)
    /\ SubSeq(s, i, i + Len(pat) - 1) = pat

\* `pat in s`
Contains(s, pat) == \E i \in 1..Len(s) : StartsAt(s, pat, i)

\* str.endswith(suffix)
EndsWith(s, suf) == Len(suf) <= Len(s) /\ SubSeq(s, Len(s) - Len(suf) + 1, Len(s)) = suf

\* str.split(sep): the parts between the non-overlapping occurrences of sep,
\* scanned left to right
RECURSIVE Split(_, _)
Split(s, sep) ==
    IF ~Contains(s, sep) THEN <<s>>
    ELSE LET i == CHOOSE j \in 1..Len(s) :
                     /\ StartsAt(s, sep, j)
                     /\ \A k \in 1..(j - 1) : ~StartsAt(s, sep, k)
         IN <<SubSeq(s, 1, i - 1)>> \o Split(SubSeq(s, i + Len(sep), Len(s)), sep)

IsDigits(s) == \A i \in 1..Len(s) : s[i] \in Digit

RECURSIVE Nat10(_)
Nat10(s) ==
    IF s = <<>> THEN 0
    ELSE Nat10(SubSeq(s, 1, Len(s) - 1)) * 10 + DigitVal(s[Len(s)])

\* decimal digits of a natural number
RECURSIVE Digits(_)
Digits(n) == IF n < 10 THEN <<DigitChar(n)>> ELSE Digits(n \div 10) \o <<DigitChar(n % 10)>>

\* zero-padded decimal of width w
RECURSIVE Pad(_, _)
Pad(s, w) == IF Len(s) >= w THEN s ELSE Pad(<<"0">> \o s, w)

\* ------------------------------------------------------------ text literals
TxtDate == <<"D", "a", "t", "e">>
TxtEngagements == <<"E", "n", "g", "a", "g", "e", "m", "e", "n", "t", "s">>
TxtEngagementsLoud == <<" ", "E", "N", "G", "A", "G", "E", "M", "E", "N", "T", "S", " ">>
TxtImpressions == <<"I", "m", "p", "r", "e", "s", "s", "i", "o", "n", "s">>
TxtNewFollowers == <<"N", "e", "w", " ", "f", "o", "l", "l", "o", "w", "e", "r", "s">>
TxtNewFollowersLoud == <<"N", "E", "W", " ", "F", "O", "L", "L", "O", "W", "E", "R", "S", " ">>
TxtTotalFollowers == <<"T", "o", "t", "a", "l", " ", "f", "o", "l", "l", "o", "w", "e", "r", "s">>
TxtSeven == <<"7">>
TxtAbc == <<"a", "b", "c">>
TxtInf == <<"i", "n", "f">>
TxtThousands == <<"1", ",", "2", "3", "4">>
TxtMinusFive == <<"-", "5">>
TxtRange == <<"1", "1", "/", "1", "1", "/", "2", "0", "2", "4", " ", "-", " ", "1", "1", "/", "1", "0", "/", "2", "0", "2", "5">>
TxtRangeReversed == <<"1", "1", "/", "1", "0", "/", "2", "0", "2", "5", " ", "-", " ", "1", "1", "/", "1", "1", "/", "2", "0", "2", "4">>
TxtRangeNoSep == <<"1", "1", "/", "1", "1", "/", "2", "0", "2", "4">>
TxtRangeTwoSep == <<"1", "1", "/", "1", "1", "/", "2", "0", "2", "4", " ", "-", " ", "1", "1", "/", "1", "0", "/", "2", "0", "2", "5", " ", "-", " ", "0", "1", "/", "0", "1", "/", "2", "0", "2", "6">>
TxtRangeBadDay == <<"0", "2", "/", "3", "0", "/", "2", "0", "2", "4", " ", "-", " ", "1", "1", "/", "1", "0", "/", "2", "0", "2", "5">>
TxtJobTitles == <<"J", "o", "b", " ", "t", "i", "t", "l", "e", "s">>
TxtLocations == <<"L", "o", "c", "a", "t", "i", "o", "n", "s">>
TxtIndustries == <<"I", "n", "d", "u", "s", "t", "r", "i", "e", "s">>
TxtSeniority == <<"S", "e", "n", "i", "o", "r", "i", "t", "y">>
TxtCompanySize == <<"C", "o", "m", "p", "a", "n", "y", " ", "s", "i", "z", "e">>
TxtCompanies == <<"C", "o", "m", "p", "a", "n", "i", "e", "s">>
TxtJobTitlesPadded == <<" ", "J", "o", "b", " ", "t", "i", "t", "l", "e", "s", " ">>
TxtJobTitlesLower == <<"j", "o", "b", " ", "t", "i", "t", "l", "e", "s">>
TxtTotal == <<"T", "o", "t", "a", "l">>
TxtEngineer == <<"E", "n", "g", "i", "n", "e", "e", "r">>
TxtLondon == <<"L", "o", "n", "d", "o", "n">>
TxtBelowOne == <<"<", " ", "1", "%">>
TxtTwelveHalfPct == <<"1", "2", ".", "5", "%">>
TxtXlsx == <<".", "x", "l", "s", "x">>
TxtCsv == <<".", "c", "s", "v">>
NameExportXlsx == <<"e", "x", "p", "o", "r", "t", ".", "x", "l", "s", "x">>
NameExportCsv == <<"e", "x", "p", "o", "r", "t", ".", "c", "s", "v">>
NameNotesTxt == <<"n", "o", "t", "e", "s", ".", "t", "x", "t">>

\* ------------------------------------------------------------ floats
Fin(m) == [c |-> "fin", m |-> m]
Inf(sign) == [c |-> "inf", m |-> sign]
NaN == [c |-> "nan", m |-> 0]
Whole(n) == Fin(n * 1000)

FNeg(f) == IF f.c = "nan" THEN f ELSE [f EXCEPT !.m = -f.m]

\* float addition (IEEE: inf + -inf = nan)
FAdd(a, b) ==
    CASE a.c = "nan" \/ b.c = "nan" -> NaN
      [] a.c = "inf" /\ b.c = "inf" -> IF a.m = b.m THEN a ELSE NaN
      [] a.c = "inf" -> a
      [] b.c = "inf" -> b
      [] OTHER -> Fin(a.m + b.m)

\* the unsigned decimal forms float() accepts: digits, digits.digits,
\* digits., .digits, and the words inf and nan.  (Exponents, underscores and
\* upper-case spellings lie outside the alphabet of the inputs enumerated
\* here; fractions carry at most three digits.)
ParseUnsigned(s) ==
    LET dots == {i \in 1..Len(s) : s[i] = "."} IN
    CASE s = <<"i", "n", "f">> -> Some(Inf(1))
      [] s = <<"n", "a", "n">> -> Some(NaN)
      [] dots = {} -> IF s # <<>> /\ IsDigits(s) THEN Some(Fin(Nat10(s) * 1000)) ELSE None
      [] Cardinality(dots) = 1 ->
            LET i == CHOOSE j \in dots : TRUE
                ip == SubSeq(s, 1, i - 1)
                fp == SubSeq(s, i + 1, Len(s))
            IN IF IsDigits(ip) /\ IsDigits(fp) /\ Len(ip) + Len(fp) > 0
               THEN Some(Fin(Nat10(ip) * 1000
                             + Nat10(SubSeq(fp \o <<"0", "0", "0">>, 1, 3))))
               ELSE None
      [] OTHER -> None

\* float(str): None when Python raises ValueError
ParseFloat(text) ==
    With(Strip(text), LAMBDA s :
    IF s # <<>> /\ Head(s) = "-"
    THEN With(ParseUnsigned(Tail(s)), LAMBDA u : IF u = None THEN None ELSE Some(FNeg(u[1])))
    ELSE IF s # <<>> /\ Head(s) = "+" THEN ParseUnsigned(Tail(s))
    ELSE ParseUnsigned(s))

\* int(f): truncation toward zero; OverflowError on an infinity, ValueError on nan
IntOfFloat(f) ==
    CASE f.c = "inf" -> Raise("OverflowError", <<"cannot convert float infinity to integer">>, {})
      [] f.c = "nan" -> Raise("ValueError", <<"cannot convert float NaN to integer">>, {})
      [] OTHER -> Ok(IF f.m >= 0 THEN f.m \div 1000 ELSE -((-f.m) \div 1000))

\* ------------------------------------------------------------ cells
\* RawCellValue as openpyxl hands it over: None, str, float or date
Empty == [k |-> "empty", s |-> <<>>, v |-> NaN]
Text(s) == [k |-> "text", s |-> s, v |-> NaN]
Num(f) == [k |-> "num", s |-> <<>>, v |-> f]
DateCell == [k |-> "date", s |-> <<>>, v |-> NaN]

\* truthiness of a cell value (`if cell.value`, `a and b`)
Truthy(cell) ==
    CASE cell.k = "empty" -> FALSE
      [] cell.k = "text" -> cell.s # <<>>
      [] cell.k = "num" -> ~(cell.v.c = "fin" /\ cell.v.m = 0)
      [] OTHER -> TRUE

\* a fraction's digits without trailing zeros, one digit kept
RECURSIVE TrimZeros(_)
TrimZeros(d) ==
    IF Len(d) > 1 /\ d[Len(d)] = "0" THEN TrimZeros(SubSeq(d, 1, Len(d) - 1)) ELSE d

\* str(value) of a cell value; a float prints its whole part and fraction
Str(cell) ==
    CASE cell.k = "text" -> cell.s
      [] cell.k = "empty" -> <<"N", "o", "n", "e">>
      [] cell.k = "date" -> <<"d", "a", "t", "e">>
      [] cell.v.c = "inf" -> IF cell.v.m > 0 THEN <<"i", "n", "f">> ELSE <<"-", "i", "n", "f">>
      [] cell.v.c = "nan" -> <<"n", "a", "n">>
      [] OTHER ->
            LET a == IF cell.v.m >= 0 THEN cell.v.m ELSE -cell.v.m
            IN (IF cell.v.m < 0 THEN <<"-">> ELSE <<>>)
               \o Digits(a \div 1000) \o <<".">> \o TrimZeros(Pad(Digits(a % 1000), 3))

\* float(value) of a cell value: TypeError on None and on a date
FloatOf(cell) ==
    CASE cell.k = "num" -> Ok(cell.v)
      [] cell.k = "text" ->
            With(ParseFloat(cell.s), LAMBDA p :
            IF p = None THEN Raise("ValueError", <<"could not convert string to float">>, {})
            ELSE Ok(p[1]))
      [] OTHER -> Raise("TypeError", <<"float() argument must be a string or a number">>, {})

\* ------------------------------------------------------------ workbook
\* A workbook is [readable, sheets]: readable is whether load_workbook can
\* open the bytes; sheets maps each landmark sheet name to None (no such
\* sheet) or Some(grid), a grid being a sequence of rows, each a sequence of
\* cells.  The DISCOVERY sheet is kept as its labeled cells, label -> cell.
SheetNames == {"DISCOVERY", "ENGAGEMENT", "FOLLOWERS", "DEMOGRAPHICS", "TOP POSTS"}
HasSheet(wb, name) == wb.sheets[name] # None
SheetOf(wb, name) == wb.sheets[name][1]

CellAt(ws, r, c) == IF r <= Len(ws) /\ c <= Len(ws[r]) THEN ws[r][c] ELSE Empty
RowAt(ws, r) == IF r <= Len(ws) THEN ws[r] ELSE <<Empty>>

\* load_workbook(io.BytesIO(file_content)) on bytes that are no workbook
NotAWorkbook == Raise("BadZipFile", <<"File is not a zip file">>, {})

\* the leftmost column of `row` whose header, trimmed and lower-cased, is
\* `name`; 0 when there is none (the `for ... break` header search)
HeaderColumn(row, name) ==
    LET hits == {i \in 1..Len(row) :
                    Truthy(row[i]) /\ Lower(Strip(Str(row[i]))) = name}
    IN IF hits = {} THEN 0 ELSE CHOOSE i \in hits : \A j \in hits : i <= j

\* `total += float(cell.value)` over rows from..max_row of column col, cells
\* that are None or raise ValueError/TypeError skipped
RECURSIVE SumColumn(_, _, _)
SumColumn(ws, col, from) ==
    IF from > Len(ws) THEN Whole(0)
    ELSE With(SumColumn(ws, col, from + 1), LAMBDA rest :
         With(FloatOf(CellAt(ws, from, col)), LAMBDA f :
         IF CellAt(ws, from, col).k # "empty" /\ f.ok THEN FAdd(f.v, rest) ELSE rest))

\* ------------------------------------------------------------ discovery_parser.py
Date(y, m, d) == [y |-> y, m |-> m, d |-> d]

DaysInMonth(y, m) ==
    CASE m \in {4, 6, 9, 11} -> 30
      [] m = 2 -> IF (y % 4 = 0 /\ y % 100 # 0) \/ y % 400 = 0 THEN 29 ELSE 28
      [] OTHER -> 31

\* datetime.strptime(tok, "%m/%d/%Y").date(): None when it raises ValueError
ParseDate(tok) ==
    With(Split(tok, <<"/">>), LAMBDA parts :
    IF Len(parts) # 3 THEN None
    ELSE With(parts[1], LAMBDA mm :
         With(IF Len(parts[2]) = 2 /\ parts[2][1] = " " /\ parts[2][2] # "0"
              THEN Tail(parts[2]) ELSE parts[2], LAMBDA dd :
         With(parts[3], LAMBDA yy :
         IF /\ Len(mm) \in {1, 2} /\ IsDigits(mm)
            /\ Len(dd) \in {1, 2} /\ IsDigits(dd)
            /\ Len(yy) = 4 /\ IsDigits(yy)
            /\ Nat10(mm) \in 1..12
            /\ Nat10(yy) >= 1
            /\ Nat10(dd) \in 1..DaysInMonth(Nat10(yy), Nat10(mm))
         THEN Some(Date(Nat10(yy), Nat10(mm), Nat10(dd)))
         ELSE None))))

\* A variant of parse_date_range that reads the first two parts of however
\* many the split yields.
parse_date_range_first_two(date_range_str) ==
    With(Split(Strip(date_range_str), <<" ", "-", " ">>), LAMBDA dates :
    IF Len(dates) < 2
    THEN Raise("ValueError", <<"Failed to parse date range", "Expected format">>, {})
    ELSE With(ParseDate(Strip(dates[1])), LAMBDA start_date :
         With(ParseDate(Strip(dates[2])), LAMBDA end_date :
         IF start_date = None \/ end_date = None
         THEN Raise("ValueError", <<"Failed to parse date range", "does not match format">>, {})
         ELSE Ok(<<start_date[1], end_date[1]>>))))

parse_date_range(date_range_str) ==
    With(Split(Strip(date_range_str), <<" ", "-", " ">>), LAMBDA dates :
    IF Len(dates) # 2
    THEN Raise("ValueError", <<"Failed to parse date range", "Expected format">>, {})
    ELSE With(ParseDate(Strip(dates[1])), LAMBDA start_date :
         With(ParseDate(Strip(dates[2])), LAMBDA end_date :
         IF start_date = None \/ end_date = None
         THEN Raise("ValueError", <<"Failed to parse date range", "does not match format">>, {})
         ELSE Ok(<<start_date[1], end_date[1]>>))))

parse_integer_value(value) ==
    With(Then(FloatOf(IF value.k = "text" THEN Text(Strip(Remove(value.s, ","))) ELSE value),
              LAMBDA f : IntOfFloat(f)), LAMBDA r :
    IF ~r.ok /\ r.exc \in {"ValueError", "TypeError"}
    THEN Raise("ValueError", <<"Failed to parse integer value">> \o r.msg, {})
    ELSE r)

\* ------------------------------------------------------------ summary_metrics_parser.py
DaysPerYear == 365

get_total_engagements(file_content) ==
    RewrapException(
        IF ~file_content.readable THEN NotAWorkbook
        ELSE IF ~HasSheet(file_content, "ENGAGEMENT")
        THEN Raise("ValueError", <<"ENGAGEMENT sheet not found in Excel file">>, {})
        ELSE With(SheetOf(file_content, "ENGAGEMENT"), LAMBDA ws :
             With(HeaderColumn(RowAt(ws, 1), Lower(TxtEngagements)), LAMBDA engagements_column :
             IF engagements_column = 0
             THEN Raise("ValueError", <<"'Engagements' column not found in ENGAGEMENT sheet">>, {})
             ELSE IntOfFloat(SumColumn(ws, engagements_column, 2)))),
        "Failed to calculate total engagements")

get_average_daily_impressions(total_impressions) ==
    IF total_impressions < 0
    THEN Raise("ValueError", <<"Total impressions cannot be negative">>, {})
    ELSE Ok([num |-> total_impressions, den |-> DaysPerYear])

get_new_followers(file_content) ==
    RewrapException(
        IF ~file_content.readable THEN NotAWorkbook
        ELSE IF ~HasSheet(file_content, "FOLLOWERS")
        THEN Raise("ValueError", <<"FOLLOWERS sheet not found in Excel file">>, {})
        ELSE With(SheetOf(file_content, "FOLLOWERS"), LAMBDA ws :
             With(HeaderColumn(RowAt(ws, 3), Lower(TxtNewFollowers)), LAMBDA new_followers_column :
             IF new_followers_column = 0
             THEN Raise("ValueError", <<"'New followers' column not found in Followers sheet">>, {})
             ELSE IntOfFloat(SumColumn(ws, new_followers_column, 4)))),
        "Failed to calculate new followers")

\* A variant of SummaryCalls that sums the followers before the engagements.
SummaryCallsFollowersFirst(file_content, total_impressions) ==
    With([fn |-> "get_new_followers", r |-> get_new_followers(file_content)], LAMBDA f :
    IF ~f.r.ok THEN <<f>>
    ELSE With([fn |-> "get_average_daily_impressions",
               r |-> get_average_daily_impressions(total_impressions)], LAMBDA a :
    IF ~a.r.ok THEN <<f, a>>
    ELSE <<f, a, [fn |-> "get_total_engagements", r |-> get_total_engagements(file_content)]>>))

\* The aggregations calculate_summary_metrics runs, in order, each with its
\* result; the run stops at the first one that raises.
Call(fn, r) == [fn |-> fn, r |-> r]
SummaryCalls(file_content, total_impressions) ==
    With(Call("get_total_engagements", get_total_engagements(file_content)), LAMBDA e :
    IF ~e.r.ok THEN <<e>>
    ELSE With(Call("get_average_daily_impressions",
                   get_average_daily_impressions(total_impressions)), LAMBDA a :
    IF ~a.r.ok THEN <<e, a>>
    ELSE <<e, a, Call("get_new_followers", get_new_followers(file_content))>>))

calculate_summary_metrics(file_content, total_impressions) ==
    With(SummaryCalls(file_content, total_impressions), LAMBDA calls :
    IF ~calls[Len(calls)].r.ok
    THEN RewrapValueError(calls[Len(calls)].r, "Failed to calculate summary metrics")
    ELSE Ok([total_engagements |-> calls[1].r.v,
             average_impressions_per_day |-> calls[2].r.v,
             new_followers |-> calls[3].r.v]))

\* ------------------------------------------------------------ discovery_parser.py
required_fields == {"Overall Performance", "Impressions", "Members reached"}

DiscoveryData(start_date, end_date, total_impressions, members_reached, total_engagements, average_impressions_per_day, new_followers) ==
    [start_date |-> start_date, end_date |-> end_date,
     total_impressions |-> total_impressions, members_reached |-> members_reached,
     total_engagements |-> total_engagements,
     average_impressions_per_day |-> average_impressions_per_day,
     new_followers |-> new_followers]

\* A variant of DerivedMetrics that aggregates partially: each derived field
\* is set when its own aggregation succeeds.
DerivedMetricsPartial(file_content, impressions) ==
    IF file_content = None
    THEN Ok([total_engagements |-> None, average_impressions_per_day |-> None,
             new_followers |-> None])
    ELSE With(get_total_engagements(file_content[1]), LAMBDA e :
         With(get_average_daily_impressions(impressions), LAMBDA a :
         With(get_new_followers(file_content[1]), LAMBDA f :
         Ok([total_engagements |-> IF e.ok THEN Some(e.v) ELSE None,
             average_impressions_per_day |-> IF a.ok THEN Some(a.v) ELSE None,
             new_followers |-> IF f.ok THEN Some(f.v) ELSE None]))))

\* A variant of DerivedMetrics without the inner try/except: a failure of
\* the summary metrics leaves the function.
DerivedMetricsNoCatch(file_content, impressions) ==
    IF file_content = None
    THEN Ok([total_engagements |-> None, average_impressions_per_day |-> None,
             new_followers |-> None])
    ELSE Then(calculate_summary_metrics(file_content[1], impressions), LAMBDA metrics :
         Ok([total_engagements |-> Some(metrics.total_engagements),
             average_impressions_per_day |-> Some(metrics.average_impressions_per_day),
             new_followers |-> Some(metrics.new_followers)]))

\* The summary-metrics merge of extract_discovery_data: the three derived
\* fields, None each when no content is given or the computation raises
\* ValueError; any other exception leaves the function.
DerivedMetrics(file_content, impressions) ==
    IF file_content = None
    THEN Ok([total_engagements |-> None, average_impressions_per_day |-> None,
             new_followers |-> None])
    ELSE With(calculate_summary_metrics(file_content[1], impressions), LAMBDA metrics :
         IF metrics.ok
         THEN Ok([total_engagements |-> Some(metrics.v.total_engagements),
                  average_impressions_per_day |-> Some(metrics.v.average_impressions_per_day),
                  new_followers |-> Some(metrics.v.new_followers)])
         ELSE IF metrics.exc = "ValueError"
         THEN Ok([total_engagements |-> None, average_impressions_per_day |-> None,
                  new_followers |-> None])
         ELSE metrics)

\* A variant of MissingFields that reports only the first missing field.
MissingFieldsFirstOnly(discovery_cells) ==
    IF "Overall Performance" \notin DOMAIN discovery_cells THEN {"Overall Performance"}
    ELSE IF "Impressions" \notin DOMAIN discovery_cells THEN {"Impressions"}
    ELSE IF "Members reached" \notin DOMAIN discovery_cells THEN {"Members reached"}
    ELSE {}

\* required_fields - set(discovery_cells.keys())
MissingFields(discovery_cells) == required_fields \ DOMAIN discovery_cells

\* discovery_cells maps the labels read from the sheet to their cell values;
\* file_content is None or Some(workbook).
extract_discovery_data(discovery_cells, file_content) ==
    IF ~(required_fields \subseteq DOMAIN discovery_cells)
    THEN Raise("ValueError", <<"Missing required discovery fields">>,
               MissingFields(discovery_cells))
    ELSE RewrapValueError(
        Then(parse_date_range(Str(discovery_cells["Overall Performance"])), LAMBDA range :
        Then(parse_integer_value(discovery_cells["Impressions"]), LAMBDA impressions :
        Then(parse_integer_value(discovery_cells["Members reached"]), LAMBDA members_reached :
        Then(DerivedMetrics(file_content, impressions), LAMBDA derived :
        Ok(DiscoveryData(range[1], range[2], impressions, members_reached,
                         derived.total_engagements,
                         derived.average_impressions_per_day,
                         derived.new_followers)))))),
        "Failed to extract discovery data")

\* ------------------------------------------------------------ demographics_parser.py
DemographicItem(name, percentage) == [name |-> name, percentage |-> percentage]

DemographicsData(job_titles, locations, industries, seniority, company_size, companies) ==
    [job_titles |-> job_titles, locations |-> locations, industries |-> industries,
     seniority |-> seniority, company_size |-> company_size, companies |-> companies]

ItemToDict(item) == [name |-> item.name, percentage |-> item.percentage]
ItemsToDict(items) == [i \in 1..Len(items) |-> ItemToDict(items[i])]

\* DemographicsData.to_dict()
DemographicsToDict(d) ==
    [job_titles |-> ItemsToDict(d.job_titles),
     locations |-> ItemsToDict(d.locations),
     industries |-> ItemsToDict(d.industries),
     seniority |-> IF d.seniority # <<>> THEN ItemsToDict(d.seniority) ELSE <<>>,
     company_size |-> IF d.company_size # <<>> THEN ItemsToDict(d.company_size) ELSE <<>>,
     companies |-> IF d.companies # <<>> THEN ItemsToDict(d.companies) ELSE <<>>]

parse_percentage(value) ==
    IF value.k = "text" /\ Contains(value.s, TxtBelowOne)
    THEN Ok(Fin(5))
    ELSE With(FloatOf(IF value.k = "text"
                      THEN Text(Strip(Remove(Remove(value.s, "%"), "<"))) ELSE value),
              LAMBDA f :
         IF ~f.ok /\ f.exc \in {"ValueError", "TypeError"}
         THEN Raise("ValueError", <<"Failed to parse percentage value">> \o f.msg, {})
         ELSE f)

\* the `demographics` dict as initialized: the six category labels, each empty
CategoryLabels ==
    {TxtJobTitles, TxtLocations, TxtIndustries, TxtSeniority, TxtCompanySize, TxtCompanies}

\* A variant of the row loop that leaves the loop at the first row whose
\* percentage does not parse.
RECURSIVE DemographicRowsStopAtBadPercentage(_, _, _)
DemographicRowsStopAtBadPercentage(ws, row_idx, demographics) ==
    IF row_idx > Len(ws) THEN Ok(demographics)
    ELSE IF ~(/\ Truthy(CellAt(ws, row_idx, 1))
              /\ Truthy(CellAt(ws, row_idx, 2))
              /\ CellAt(ws, row_idx, 3).k # "empty")
    THEN DemographicRowsStopAtBadPercentage(ws, row_idx + 1, demographics)
    ELSE With(Strip(Str(CellAt(ws, row_idx, 1))), LAMBDA category :
         With(Strip(Str(CellAt(ws, row_idx, 2))), LAMBDA value :
         With(parse_percentage(CellAt(ws, row_idx, 3)), LAMBDA percentage :
         IF ~percentage.ok
         THEN IF percentage.exc = "ValueError" THEN Ok(demographics) ELSE percentage
         ELSE IF category \in DOMAIN demographics
         THEN DemographicRowsStopAtBadPercentage(ws, row_idx + 1,
                  [demographics EXCEPT
                      ![category] = Append(@, DemographicItem(value, percentage.v))])
         ELSE DemographicRowsStopAtBadPercentage(ws, row_idx + 1, demographics))))

\* A variant of the row loop without the `if category in demographics`
\* guard: an unknown label raises KeyError.
RECURSIVE DemographicRowsKeyError(_, _, _)
DemographicRowsKeyError(ws, row_idx, demographics) ==
    IF row_idx > Len(ws) THEN Ok(demographics)
    ELSE IF ~(/\ Truthy(CellAt(ws, row_idx, 1))
              /\ Truthy(CellAt(ws, row_idx, 2))
              /\ CellAt(ws, row_idx, 3).k # "empty")
    THEN DemographicRowsKeyError(ws, row_idx + 1, demographics)
    ELSE With(Strip(Str(CellAt(ws, row_idx, 1))), LAMBDA category :
         With(Strip(Str(CellAt(ws, row_idx, 2))), LAMBDA value :
         With(parse_percentage(CellAt(ws, row_idx, 3)), LAMBDA percentage :
         IF ~percentage.ok
         THEN IF percentage.exc = "ValueError"
              THEN DemographicRowsKeyError(ws, row_idx + 1, demographics)
              ELSE percentage
         ELSE IF category \in DOMAIN demographics
         THEN DemographicRowsKeyError(ws, row_idx + 1,
                  [demographics EXCEPT
                      ![category] = Append(@, DemographicItem(value, percentage.v))])
         ELSE Raise("KeyError", <<category>>, {}))))

\* the row loop of parse_demographics_sheet from row_idx to max_row
RECURSIVE DemographicRows(_, _, _)
DemographicRows(ws, row_idx, demographics) ==
    IF row_idx > Len(ws) THEN Ok(demographics)
    ELSE IF ~(/\ Truthy(CellAt(ws, row_idx, 1))
              /\ Truthy(CellAt(ws, row_idx, 2))
              /\ CellAt(ws, row_idx, 3).k # "empty")
    THEN DemographicRows(ws, row_idx + 1, demographics)
    ELSE With(Strip(Str(CellAt(ws, row_idx, 1))), LAMBDA category :
         With(Strip(Str(CellAt(ws, row_idx, 2))), LAMBDA value :
         With(parse_percentage(CellAt(ws, row_idx, 3)), LAMBDA percentage :
         IF ~percentage.ok
         THEN IF percentage.exc = "ValueError"
              THEN DemographicRows(ws, row_idx + 1, demographics)
              ELSE percentage
         ELSE IF category \in DOMAIN demographics
         THEN DemographicRows(ws, row_idx + 1,
                  [demographics EXCEPT
                      ![category] = Append(@, DemographicItem(value, percentage.v))])
         ELSE DemographicRows(ws, row_idx + 1, demographics))))

parse_demographics_sheet(file_content) ==
    RewrapException(
        IF ~file_content.readable THEN NotAWorkbook
        ELSE IF ~HasSheet(file_content, "DEMOGRAPHICS")
        THEN Raise("ValueError", <<"DEMOGRAPHICS sheet not found in Excel file">>, {})
        ELSE Then(DemographicRows(SheetOf(file_content, "DEMOGRAPHICS"), 2,
                                  [c \in CategoryLabels |-> <<>>]), LAMBDA demographics :
             Ok(DemographicsData(demographics[TxtJobTitles], demographics[TxtLocations],
                                 demographics[TxtIndustries], demographics[TxtSeniority],
                                 demographics[TxtCompanySize], demographics[TxtCompanies]))),
        "Failed to parse DEMOGRAPHICS sheet")

\* ------------------------------------------------------------ sheet_parser.py, top_posts_parser.py
\* Both modules are imported by file_service.py and absent from the source
\* tree; they follow the extractor contracts of the specification.

\* bytes that open as no spreadsheet at all
UnreadableFile == Raise("UnreadableFileError", <<"content is not a spreadsheet">>, {})

\* The DISCOVERY sheet holds labeled cells; the parser returns label -> value.
parse_discovery_sheet(file_content) ==
    IF ~file_content.readable THEN UnreadableFile
    ELSE IF ~HasSheet(file_content, "DISCOVERY")
    THEN Raise("ValueError", <<"DISCOVERY sheet not found in Excel file">>, {})
    ELSE Ok(SheetOf(file_content, "DISCOVERY"))

\* the number of rows the source extractor keeps
SourceTake == 6

\* one post per data row <<url, publish date, engagements, impressions>>, in
\* source order; blank url or date pass as empty text, blank impressions as 0,
\* a row whose figures do not normalize is dropped
RECURSIVE TopPostRows(_, _)
TopPostRows(ws, row_idx) ==
    IF row_idx > Len(ws) THEN <<>>
    ELSE With(FloatOf(CellAt(ws, row_idx, 3)), LAMBDA engagements :
         With(IF CellAt(ws, row_idx, 4).k = "empty" THEN Ok(Whole(0))
              ELSE FloatOf(CellAt(ws, row_idx, 4)), LAMBDA impressions :
         IF engagements.ok /\ impressions.ok
         THEN <<[url |-> IF CellAt(ws, row_idx, 1).k = "empty" THEN <<>>
                         ELSE Str(CellAt(ws, row_idx, 1)),
                 publish_date |-> IF CellAt(ws, row_idx, 2).k = "empty" THEN <<>>
                                  ELSE Str(CellAt(ws, row_idx, 2)),
                 engagements |-> engagements.v,
                 impressions |-> impressions.v]>> \o TopPostRows(ws, row_idx + 1)
         ELSE TopPostRows(ws, row_idx + 1)))

parse_top_posts_sheet(file_content) ==
    IF ~file_content.readable THEN UnreadableFile
    ELSE IF ~HasSheet(file_content, "TOP POSTS")
    THEN Raise("ValueError", <<"TOP POSTS sheet not found in Excel file">>, {})
    ELSE Ok(TopPostRows(SheetOf(file_content, "TOP POSTS"), 1))

get_top_5_posts(all_posts) ==
    SubSeq(all_posts, 1, IF Len(all_posts) < SourceTake THEN Len(all_posts) ELSE SourceTake)

\* ------------------------------------------------------------ schemas.py
\* the pydantic DiscoveryData: four declared fields
SchemaDiscoveryData(start_date, end_date, total_impressions, members_reached) ==
    [start_date |-> start_date, end_date |-> end_date,
     total_impressions |-> total_impressions, members_reached |-> members_reached]

TopPost(rank, url, publish_date, engagements, impressions) ==
    [rank |-> rank, url |-> url, publish_date |-> publish_date,
     engagements |-> engagements, impressions |-> impressions]

EngagementMetrics(discovery_data, top_posts) ==
    [total_likes |-> 0, total_comments |-> 0, total_shares |-> 0,
     peak_engagement_time |-> None, top_performing_posts |-> <<>>,
     discovery_data |-> discovery_data, top_posts |-> top_posts]

DemographicInsights(job_titles, locations, industries, seniority, company_size, companies) ==
    [job_titles |-> job_titles, locations |-> locations, industries |-> industries,
     seniority |-> seniority, company_size |-> company_size, companies |-> companies]

\* ------------------------------------------------------------ file_service.py
\* `try: ... except ValueError: print(...)` around one extractor: the record,
\* or None after a ValueError; any other exception leaves the orchestrator.
CatchValueError(r) ==
    IF r.ok THEN Ok(Some(r.v))
    ELSE IF r.exc = "ValueError" THEN Ok(None)
    ELSE r

DiscoveryStep(content) ==
    Then(parse_discovery_sheet(content), LAMBDA discovery_cells :
    Then(extract_discovery_data(discovery_cells, None), LAMBDA parser_discovery :
    Ok(SchemaDiscoveryData(parser_discovery.start_date, parser_discovery.end_date,
                           parser_discovery.total_impressions,
                           parser_discovery.members_reached))))

TopPostsStep(content) ==
    Then(parse_top_posts_sheet(content), LAMBDA all_posts : Ok(get_top_5_posts(all_posts)))

\* process_linkedin_file after `content = await file.read()`: Ok of the
\* bundle handed to store_file_data and the response, or the exception that
\* reaches the caller (nothing is stored then).
process_linkedin_file(file, file_id) ==
    Then(CatchValueError(DiscoveryStep(file.content)), LAMBDA discovery_data :
    Then(CatchValueError(TopPostsStep(file.content)), LAMBDA top_posts :
    Then(CatchValueError(parse_demographics_sheet(file.content)), LAMBDA demographics_data :
    Ok([bundle |-> [discovery_data |-> discovery_data,
                    top_posts |-> top_posts,
                    demographics_data |-> demographics_data,
                    filename |-> file.filename,
                    content |-> file.content],
        response |-> [success |-> TRUE, fileId |-> file_id]]))))

\* ------------------------------------------------------------ analytics_service.py
\* A variant of store_file_data that replaces the dict by the new entry.
store_file_data_replacing(s, file_id, data) ==
    [i \in {file_id} |-> data]

\* _file_data_store[file_id] = data
store_file_data(s, file_id, data) ==
    [i \in DOMAIN s \cup {file_id} |-> IF i = file_id THEN data ELSE s[i]]

\* _file_data_store.get(file_id)
get_file_data(s, file_id) == IF file_id \in DOMAIN s THEN Some(s[file_id]) ELSE None

get_discovery_data(s, file_id) ==
    With(get_file_data(s, file_id), LAMBDA data :
    IF data # None THEN data[1].discovery_data ELSE None)

\* the slice get_top_posts takes of the stored list
TopSlice == 6

get_top_posts(s, file_id) ==
    With(get_file_data(s, file_id), LAMBDA data :
    IF data # None /\ data[1].top_posts # None
    THEN With(SubSeq(data[1].top_posts[1], 1,
                     IF Len(data[1].top_posts[1]) < TopSlice
                     THEN Len(data[1].top_posts[1]) ELSE TopSlice), LAMBDA posts :
         Some([idx \in 1..Len(posts) |->
                  TopPost(idx, posts[idx].url, posts[idx].publish_date,
                          posts[idx].engagements, posts[idx].impressions)]))
    ELSE None)

\* date.isoformat(): YYYY-MM-DD
IsoFormat(d) ==
    Pad(Digits(d.y), 4) \o <<"-">> \o Pad(Digits(d.m), 2) \o <<"-">> \o Pad(Digits(d.d), 2)

get_engagement_metrics(s, file_id) ==
    With(get_discovery_data(s, file_id), LAMBDA discovery :
    IF discovery # None
    THEN EngagementMetrics(
             Some([start_date |-> IsoFormat(discovery[1].start_date),
                   end_date |-> IsoFormat(discovery[1].end_date),
                   total_impressions |-> discovery[1].total_impressions,
                   members_reached |-> discovery[1].members_reached]),
             get_top_posts(s, file_id))
    ELSE EngagementMetrics(None, get_top_posts(s, file_id)))

get_demographic_insights(s, file_id) ==
    With(get_file_data(s, file_id), LAMBDA data :
    IF data # None /\ data[1].demographics_data # None
    THEN With(DemographicsToDict(data[1].demographics_data[1]), LAMBDA d :
         DemographicInsights(d.job_titles, d.locations, d.industries,
                             Some(d.seniority), Some(d.company_size), Some(d.companies)))
    ELSE DemographicInsights(<<>>, <<>>, <<>>, None, None, None))

\* ------------------------------------------------------------ inputs
MkWorkbook(disc, eng, fol, demo, posts) ==
    [readable |-> TRUE,
     sheets |-> [n \in SheetNames |->
                    CASE n = "DISCOVERY" -> disc
                      [] n = "ENGAGEMENT" -> eng
                      [] n = "FOLLOWERS" -> fol
                      [] n = "DEMOGRAPHICS" -> demo
                      [] OTHER -> posts]]

\* bytes that are no workbook at all
WbUnreadable == [readable |-> FALSE, sheets |-> [n \in SheetNames |-> None]]

DiscoveryCells(range, impressions, members) ==
    [l \in required_fields |->
        CASE l = "Overall Performance" -> range
          [] l = "Impressions" -> impressions
          [] OTHER -> members]

\* the cells of the end-to-end example
DiscoveryCellsValid ==
    DiscoveryCells(Text(TxtRange), Num(Whole(857000)), Num(Whole(297771)))

RangeCells ==
    {Text(TxtRange), Text(TxtRangeReversed), Text(TxtRangeNoSep), Text(TxtRangeTwoSep),
     Text(TxtRangeBadDay), Empty}
CountCells ==
    {Num(Whole(857000)), Text(TxtThousands), Text(TxtAbc), Text(TxtInf),
     Text(TxtMinusFive), Empty}
MemberCells == {Num(Whole(297771)), Text(TxtAbc)}

\* every labeled-cell map over every subset of the three labels
DiscoveryCellMaps ==
    UNION {{c \in [S -> RangeCells \cup CountCells \cup MemberCells] :
               /\ "Overall Performance" \in S => c["Overall Performance"] \in RangeCells
               /\ "Impressions" \in S => c["Impressions"] \in CountCells
               /\ "Members reached" \in S => c["Members reached"] \in MemberCells}
           : S \in SUBSET required_fields}

EngagementHeaders ==
    {<<Text(TxtDate), Text(TxtEngagements)>>,
     <<Text(TxtEngagementsLoud), Text(TxtEngagements)>>,
     <<Text(TxtDate), Text(TxtImpressions)>>}

ColumnCells ==
    {Num(Whole(10)), Num(Fin(2500)), Text(TxtSeven), Text(TxtAbc), Text(TxtInf), Empty}

Columns == UNION {[1..n -> ColumnCells] : n \in 0..MaxRows}

\* header in row 1; the enumerated column sits under the leftmost matching
\* header, the other column holds a date or a constant
EngagementSheet(header, column) ==
    <<header>> \o
    [i \in 1..Len(column) |->
        IF header[1] = Text(TxtDate) THEN <<DateCell, column[i]>>
        ELSE <<column[i], Num(Whole(1000))>>]

EngagementValid ==
    EngagementSheet(<<Text(TxtDate), Text(TxtEngagements)>>,
                    <<Num(Whole(10)), Num(Fin(2500)), Num(Fin(2500))>>)

\* two preamble rows, the header in row 3, data from row 4
FollowersSheet(column) ==
    << <<Text(TxtTotalFollowers), Num(Whole(5000))>>, <<>>,
       <<Text(TxtDate), Text(TxtNewFollowersLoud)>> >> \o
    [i \in 1..Len(column) |-> <<DateCell, column[i]>>]

FollowersValid == FollowersSheet(<<Num(Whole(12)), Num(Whole(-2)), Text(TxtSeven)>>)

\* the header sits in row 1, where get_new_followers does not look
FollowersHeaderInRow1 ==
    << <<Text(TxtDate), Text(TxtNewFollowers)>>, <<DateCell, Num(Whole(12))>>,
       <<DateCell, Num(Whole(3))>>, <<DateCell, Num(Whole(4))>> >>

DemographicsHeader == <<Text(TxtJobTitles), Text(TxtEngineer), Text(TxtAbc)>>

DemographicsValid ==
    <<DemographicsHeader,
      <<Text(TxtJobTitles), Text(TxtEngineer), Num(Fin(250))>>,
      <<Text(TxtLocations), Text(TxtLondon), Text(TxtBelowOne)>>,
      <<Text(TxtTotal), Text(TxtLondon), Num(Whole(1))>>,
      <<Text(TxtJobTitles), Text(TxtLondon), Text(TxtAbc)>> >>

PostsSheet(n) ==
    [i \in 1..n |->
        <<Text(<<"p", DigitChar(i)>>), Text(TxtRangeNoSep), Num(Whole(100 - i)),
          IF i = 2 THEN Empty ELSE Num(Whole(1000))>>]

WbValid ==
    MkWorkbook(Some(DiscoveryCellsValid), Some(EngagementValid), Some(FollowersValid),
               Some(DemographicsValid), Some(PostsSheet(7)))
WbFewPosts ==
    MkWorkbook(Some(DiscoveryCellsValid), Some(EngagementValid), Some(FollowersValid),
               Some(DemographicsValid), Some(PostsSheet(2)))
WbNoFollowers ==
    MkWorkbook(Some(DiscoveryCellsValid), Some(EngagementValid), None,
               Some(DemographicsValid), Some(PostsSheet(2)))
WbNoEngagement ==
    MkWorkbook(Some(DiscoveryCellsValid), None, Some(FollowersValid),
               Some(DemographicsValid), Some(PostsSheet(2)))
WbNoDemographics ==
    MkWorkbook(Some(DiscoveryCellsValid), Some(EngagementValid), Some(FollowersValid),
               None, Some(PostsSheet(2)))
WbNoTopPosts ==
    MkWorkbook(Some(DiscoveryCellsValid), Some(EngagementValid), Some(FollowersValid),
               Some(DemographicsValid), None)
WbNoDiscovery ==
    MkWorkbook(None, Some(EngagementValid), Some(FollowersValid),
               Some(DemographicsValid), Some(PostsSheet(2)))
WbMissingField ==
    MkWorkbook(Some([l \in {"Overall Performance", "Impressions"} |-> DiscoveryCellsValid[l]]),
               Some(EngagementValid), Some(FollowersValid),
               Some(DemographicsValid), Some(PostsSheet(2)))
WbInfImpressions ==
    MkWorkbook(Some(DiscoveryCells(Text(TxtRange), Text(TxtInf), Num(Whole(297771)))),
               Some(EngagementValid), Some(FollowersValid),
               Some(DemographicsValid), Some(PostsSheet(2)))
WbInfEngagements ==
    MkWorkbook(Some(DiscoveryCellsValid),
               Some(EngagementSheet(<<Text(TxtDate), Text(TxtEngagements)>>,
                                    <<Num(Whole(10)), Text(TxtInf)>>)),
               Some(FollowersValid), Some(DemographicsValid), Some(PostsSheet(2)))
WbFollowersHeaderInRow1 ==
    MkWorkbook(Some(DiscoveryCellsValid), Some(EngagementValid), Some(FollowersHeaderInRow1),
               Some(DemographicsValid), Some(PostsSheet(2)))

\* the uploads the service is offered: a name and the bytes
UploadedFile(filename, content) == [filename |-> filename, content |-> content]

Files ==
    {UploadedFile(NameExportXlsx, wb) :
        wb \in {WbValid, WbFewPosts, WbNoFollowers, WbNoDemographics, WbNoTopPosts,
                WbNoDiscovery, WbMissingField, WbInfImpressions, WbUnreadable}}
    \cup {UploadedFile(NameExportCsv, WbUnreadable), UploadedFile(NameNotesTxt, WbValid)}

Tasks == {"t1", "t2"}
FileIds == 1..MaxUploads

Init ==
    /\ store = <<>>
    /\ task = [t \in Tasks |-> None]
    /\ nextId = 0
    /\ resp = [op |-> "none"]
    /\ arg = <<>>
    /\ ret = None

\* ------------------------------------------------------------ files.py
\* upload_file rejects the name before anything is read
UploadRejected(f) ==
    /\ ~(EndsWith(f.filename, TxtXlsx) \/ EndsWith(f.filename, TxtCsv))
    /\ resp' = [op |-> "upload_file", status |-> 400, file |-> f]
    /\ UNCHANGED <<store, task, nextId, arg, ret>>

\* upload_file calls process_linkedin_file, which draws the file id and
\* suspends at `await file.read()`
UploadStart(t, f) ==
    /\ EndsWith(f.filename, TxtXlsx) \/ EndsWith(f.filename, TxtCsv)
    /\ task[t] = None
    /\ nextId < MaxUploads
    /\ nextId' = nextId + 1
    /\ task' = [task EXCEPT ![t] = Some([file_id |-> nextId + 1, file |-> f])]
    /\ UNCHANGED <<store, resp, arg, ret>>

\* A variant of UploadFinish that stores under the id drawn last by any
\* invocation instead of the invocation's own id.
UploadFinishLatestId(t) ==
    /\ task[t] # None
    /\ With(process_linkedin_file(task[t][1].file, nextId), LAMBDA r :
       IF r.ok
       THEN /\ store' = store_file_data(store, nextId, r.v.bundle)
            /\ resp' = [op |-> "upload_file", status |-> 200, file |-> task[t][1].file,
                        out |-> r.v.response]
       ELSE /\ store' = store
            /\ resp' = [op |-> "upload_file", status |-> 500, file |-> task[t][1].file,
                        detail |-> r])
    /\ task' = [task EXCEPT ![t] = None]
    /\ UNCHANGED <<nextId, arg, ret>>

\* the rest of process_linkedin_file, run without suspension, and the
\* response upload_file makes of it
UploadFinish(t) ==
    /\ task[t] # None
    /\ With(process_linkedin_file(task[t][1].file, task[t][1].file_id), LAMBDA r :
       IF r.ok
       THEN /\ store' = store_file_data(store, task[t][1].file_id, r.v.bundle)
            /\ resp' = [op |-> "upload_file", status |-> 200, file |-> task[t][1].file,
                        out |-> r.v.response]
       ELSE /\ store' = store
            /\ resp' = [op |-> "upload_file", status |-> 500, file |-> task[t][1].file,
                        detail |-> r])
    /\ task' = [task EXCEPT ![t] = None]
    /\ UNCHANGED <<nextId, arg, ret>>

GetDiscoveryData(file_id) ==
    /\ resp' = [op |-> "get_discovery_data", file_id |-> file_id,
                seen |-> get_file_data(store, file_id),
                out |-> get_discovery_data(store, file_id)]
    /\ UNCHANGED <<store, task, nextId, arg, ret>>

GetEngagementMetrics(file_id) ==
    /\ resp' = [op |-> "get_engagement_metrics", file_id |-> file_id,
                seen |-> get_file_data(store, file_id),
                out |-> get_engagement_metrics(store, file_id)]
    /\ UNCHANGED <<store, task, nextId, arg, ret>>

GetDemographicInsights(file_id) ==
    /\ resp' = [op |-> "get_demographic_insights", file_id |-> file_id,
                seen |-> get_file_data(store, file_id),
                out |-> get_demographic_insights(store, file_id)]
    /\ UNCHANGED <<store, task, nextId, arg, ret>>

GetTopPosts(file_id) ==
    /\ resp' = [op |-> "get_top_posts", file_id |-> file_id,
                seen |-> get_file_data(store, file_id),
                out |-> get_top_posts(store, file_id)]
    /\ UNCHANGED <<store, task, nextId, arg, ret>>

Next ==
    \/ \E f \in Files : UploadRejected(f)
    \/ \E t \in Tasks, f \in Files : UploadStart(t, f)
    \/ \E t \in Tasks : UploadFinish(t)
    \/ \E i \in FileIds : GetDiscoveryData(i)
    \/ \E i \in FileIds : GetEngagementMetrics(i)
    \/ \E i \in FileIds : GetDemographicInsights(i)
    \/ \E i \in FileIds : GetTopPosts(i)

Spec == Init /\ [][Next]_vars

\* ------------------------------------------------------------ unit level
\* extract_discovery_data on every labeled-cell map, without and with content
DiscContents ==
    {None} \cup {Some(wb) : wb \in {WbValid, WbNoFollowers, WbNoEngagement, WbInfEngagements,
                                     WbFollowersHeaderInRow1, WbUnreadable}}

InitDisc ==
    /\ store = <<>>
    /\ task = [t \in Tasks |-> None]
    /\ nextId = 0
    /\ resp = [op |-> "none"]
    /\ arg \in [cells : DiscoveryCellMaps, content : DiscContents]
    /\ ret = None

CallExtractDiscoveryData ==
    /\ ret = None
    /\ ret' = Some(extract_discovery_data(arg.cells, arg.content))
    /\ UNCHANGED <<store, task, nextId, resp, arg>>

NextDisc == CallExtractDiscoveryData

SpecDisc == InitDisc /\ [][NextDisc]_vars

\* the summary metrics on every engagement column under every header
SummaryWorkbooks ==
    {WbUnreadable}
    \cup {MkWorkbook(None, eng, fol, None, None) :
            eng \in {None} \cup {Some(EngagementSheet(h, c)) : h \in EngagementHeaders, c \in Columns},
            fol \in {None, Some(FollowersValid), Some(FollowersHeaderInRow1)}}

InitSummary ==
    /\ store = <<>>
    /\ task = [t \in Tasks |-> None]
    /\ nextId = 0
    /\ resp = [op |-> "none"]
    /\ arg \in [file_content : SummaryWorkbooks, total_impressions : {-1, 0, 730}]
    /\ ret = None

CallCalculateSummaryMetrics ==
    /\ ret = None
    /\ ret' = Some([fn |-> "calculate_summary_metrics",
                    r |-> calculate_summary_metrics(arg.file_content, arg.total_impressions),
                    calls |-> With(SummaryCalls(arg.file_content, arg.total_impressions),
                                   LAMBDA c : [i \in 1..Len(c) |-> c[i].fn])])
    /\ UNCHANGED <<store, task, nextId, resp, arg>>

CallGetTotalEngagements ==
    /\ ret = None
    /\ ret' = Some([fn |-> "get_total_engagements",
                    r |-> get_total_engagements(arg.file_content)])
    /\ UNCHANGED <<store, task, nextId, resp, arg>>

NextSummary == CallCalculateSummaryMetrics \/ CallGetTotalEngagements

SpecSummary == InitSummary /\ [][NextSummary]_vars

\* parse_demographics_sheet on every sheet of up to MaxRows data rows
DemographicRowSamples ==
    {<<Text(TxtJobTitles), Text(TxtEngineer), p>> :
        p \in {Num(Fin(250)), Text(TxtBelowOne), Text(TxtAbc)}}
    \cup {<<Text(c), Text(TxtEngineer), Num(Fin(250))>> : c \in {TxtSeniority, TxtTotal}}
    \cup {<<Text(TxtJobTitlesLower), Text(TxtLondon), Num(Whole(3))>>,
          <<Text(TxtJobTitlesPadded), Text(TxtLondon), Num(Whole(3))>>,
          <<Text(TxtCompanies), Empty, Num(Whole(3))>>,
          <<Text(TxtCompanies), Text(TxtLondon), Empty>>}

DemographicSheets ==
    UNION {{<<DemographicsHeader>> \o rows : rows \in [1..n -> DemographicRowSamples]}
           : n \in 0..MaxRows}

InitDemo ==
    /\ store = <<>>
    /\ task = [t \in Tasks |-> None]
    /\ nextId = 0
    /\ resp = [op |-> "none"]
    /\ arg \in DemographicSheets
    /\ ret = None

CallParseDemographicsSheet ==
    /\ ret = None
    /\ ret' = Some(parse_demographics_sheet(MkWorkbook(None, None, None, Some(arg), None)))
    /\ UNCHANGED <<store, task, nextId, resp, arg>>

NextDemo == CallParseDemographicsSheet

SpecDemo == InitDemo /\ [][NextDemo]_vars

\* parse_date_range on every text made of up to MaxParts tokens joined by
\* the separator
MaxParts == 3
TxtStartDate == <<"1", "1", "/", "1", "1", "/", "2", "0", "2", "4">>
TxtEndDate == <<"1", "1", "/", "1", "0", "/", "2", "0", "2", "5">>
TxtLeapDay == <<"2", "/", "2", "9", "/", "2", "0", "2", "4">>
TxtNoLeapDay == <<"0", "2", "/", "2", "9", "/", "2", "0", "2", "3">>
TxtMonth13 == <<"1", "3", "/", "0", "1", "/", "2", "0", "2", "4">>
TxtPaddedDate == <<" ", "0", "1", "/", "0", "5", "/", "2", "0", "2", "4", " ">>
TxtIsoDate == <<"2", "0", "2", "4", "-", "1", "1", "-", "1", "1">>
TxtSeparator == <<" ", "-", " ">>

RangeTokens ==
    {TxtStartDate, TxtEndDate, TxtLeapDay, TxtNoLeapDay, TxtMonth13, TxtPaddedDate,
     TxtIsoDate, TxtAbc, <<>>}

RECURSIVE JoinTokens(_)
JoinTokens(tokens) ==
    IF Len(tokens) = 1 THEN tokens[1]
    ELSE tokens[1] \o TxtSeparator \o JoinTokens(Tail(tokens))

RangeInputs ==
    {[tokens |-> ts, text |-> JoinTokens(ts)] :
        ts \in UNION {[1..n -> RangeTokens] : n \in 1..MaxParts}}

InitRange ==
    /\ store = <<>>
    /\ task = [t \in Tasks |-> None]
    /\ nextId = 0
    /\ resp = [op |-> "none"]
    /\ arg \in RangeInputs
    /\ ret = None

CallParseDateRange ==
    /\ ret = None
    /\ ret' = Some(parse_date_range(arg.text))
    /\ UNCHANGED <<store, task, nextId, resp, arg>>

NextRange == CallParseDateRange

SpecRange == InitRange /\ [][NextRange]_vars

\* parse_percentage on numbers, on empty and date cells, and on texts made
\* of a prefix, a core and a suffix
TxtLessThan == <<"<">>
TxtLessThanSpace == <<"<", " ">>
TxtAbout == <<"a", "b", "o", "u", "t", " ">>
TxtAboutLessThan == <<"a", "b", "o", "u", "t", " ", "<", " ">>
TxtOne == <<"1">>
TxtTwelveHalf == <<"1", "2", ".", "5">>
TxtPercent == <<"%">>
TxtSpacePercent == <<" ", "%">>
TxtPercentOfMembers == <<"%", " ", "o", "f", " ", "m", "e", "m", "b", "e", "r", "s">>

PercentPrefixes == {<<>>, TxtLessThan, TxtLessThanSpace, TxtAbout, TxtAboutLessThan}
PercentCores == {TxtOne, TxtTwelveHalf, TxtAbc, <<>>}
PercentSuffixes == {<<>>, TxtPercent, TxtSpacePercent, TxtPercentOfMembers}

PercentInputs ==
    {[prefix |-> p, core |-> c, suffix |-> s, cell |-> Text(p \o c \o s)] :
        p \in PercentPrefixes, c \in PercentCores, s \in PercentSuffixes}
    \cup {[prefix |-> <<>>, core |-> <<>>, suffix |-> <<>>, cell |-> v] :
            v \in {Num(Fin(250)), Num(Whole(12)), Num(Fin(-500)), Num(Whole(0)),
                   Num(Whole(150)), Empty, DateCell}}

InitPct ==
    /\ store = <<>>
    /\ task = [t \in Tasks |-> None]
    /\ nextId = 0
    /\ resp = [op |-> "none"]
    /\ arg \in PercentInputs
    /\ ret = None

CallParsePercentage ==
    /\ ret = None
    /\ ret' = Some(parse_percentage(arg.cell))
    /\ UNCHANGED <<store, task, nextId, resp, arg>>

NextPct == CallParsePercentage

SpecPct == InitPct /\ [][NextPct]_vars

\* ====================================================================== properties
\* ------------------------------------------------------------ the upload (Spec)
DerivedKeys == {"total_engagements", "average_impressions_per_day", "new_followers"}
RequiredKeys == {"start_date", "end_date", "total_impressions", "members_reached"}

\* field k of a served or stored discovery record carries a value
Populated(d, k) == k \in DOMAIN d /\ (k \in DerivedKeys => d[k] # None)
Absent(d, k) == k \notin DOMAIN d \/ (k \in DerivedKeys /\ d[k] = None)

\* the last response is the reply to an upload that passed the file-name check
UploadReplied == resp.op = "upload_file" /\ resp.status \in {200, 500}

\* the values the end-to-end example holds in its DISCOVERY sheet
ExampleDiscovery ==
    [start_date |-> Date(2024, 11, 11), end_date |-> Date(2025, 11, 10),
     total_impressions |-> 857000, members_reached |-> 297771]

\* C1: whenever an extractor fails on a readable workbook, for whatever
\* reason, the upload still succeeds: the reply is a success, the bundle is
\* stored, and exactly the fields whose extractor failed are absent.
C1_ExtractorFailuresSwallowed ==
    (UploadReplied /\ resp.file.content.readable) =>
        /\ resp.status = 200
        /\ resp.out.success
        /\ resp.out.fileId \in DOMAIN store
        /\ (store[resp.out.fileId].discovery_data = None)
              <=> ~DiscoveryStep(resp.file.content).ok
        /\ (store[resp.out.fileId].top_posts = None)
              <=> ~TopPostsStep(resp.file.content).ok
        /\ (store[resp.out.fileId].demographics_data = None)
              <=> ~parse_demographics_sheet(resp.file.content).ok

\* C2: an upload fails towards its caller exactly when the bytes are not a
\* readable workbook, and then with the unreadable-file error; no other
\* extraction failure reaches the caller.
C2_OnlyUnreadableReachesCaller ==
    UploadReplied =>
        /\ (resp.status = 500) <=> ~resp.file.content.readable
        /\ (resp.status = 500) => resp.detail.exc = "UnreadableFileError"

\* a workbook that lacks the FOLLOWERS sheet and is otherwise the valid
\* example: DISCOVERY, ENGAGEMENT, DEMOGRAPHICS and TOP POSTS all extract
LacksOnlyFollowers(wb) ==
    /\ wb.readable
    /\ ~HasSheet(wb, "FOLLOWERS")
    /\ wb.sheets["DISCOVERY"] = Some(DiscoveryCellsValid)
    /\ wb.sheets["ENGAGEMENT"] = Some(EngagementValid)
    /\ wb.sheets["DEMOGRAPHICS"] = Some(DemographicsValid)
    /\ HasSheet(wb, "TOP POSTS")

\* C3 as stated: for a workbook lacking only FOLLOWERS the upload succeeds
\* and the stored bundle has discovery.new_followers absent while every
\* other field, total_engagements and average_impressions_per_day included,
\* is populated.
C3_OnlyNewFollowersAbsent ==
    (UploadReplied /\ LacksOnlyFollowers(resp.file.content)) =>
        /\ resp.status = 200
        /\ resp.out.fileId \in DOMAIN store
        /\ store[resp.out.fileId].discovery_data # None
        /\ Absent(store[resp.out.fileId].discovery_data[1], "new_followers")
        /\ \A k \in RequiredKeys \cup (DerivedKeys \ {"new_followers"}) :
              Populated(store[resp.out.fileId].discovery_data[1], k)
        /\ store[resp.out.fileId].top_posts # None
        /\ store[resp.out.fileId].demographics_data # None

\* C3 amended: for a workbook lacking only FOLLOWERS the upload succeeds and
\* the stored bundle has the four sheet-read discovery fields, the top posts
\* and the demographics populated, and the three derived fields are absent
\* together: in the bundle, and in the record extract_discovery_data returns
\* when it is handed that workbook's content. new_followers is never the
\* only derived field missing.
C3_DerivedFieldsAbsentTogether ==
    (UploadReplied /\ LacksOnlyFollowers(resp.file.content)) =>
        /\ resp.status = 200
        /\ resp.out.success
        /\ resp.out.fileId \in DOMAIN store
        /\ store[resp.out.fileId].discovery_data = Some(ExampleDiscovery)
        /\ \A k \in DerivedKeys :
              Absent(store[resp.out.fileId].discovery_data[1], k)
        /\ store[resp.out.fileId].top_posts # None
        /\ Len(store[resp.out.fileId].top_posts[1]) > 0
        /\ store[resp.out.fileId].demographics_data # None
        /\ Len(store[resp.out.fileId].demographics_data[1].job_titles) > 0
        /\ With(extract_discovery_data(DiscoveryCellsValid, Some(resp.file.content)),
                LAMBDA r : /\ r.ok
                           /\ \A k \in RequiredKeys : r.v[k] = ExampleDiscovery[k]
                           /\ \A k \in DerivedKeys : r.v[k] = None)

\* an upload of a workbook lacking only FOLLOWERS has been answered
C3_Witness ==
    /\ UploadReplied
    /\ resp.status = 200
    /\ LacksOnlyFollowers(resp.file.content)
    /\ resp.out.fileId \in DOMAIN store

\* a workbook all of whose sheets are the valid example
AllSheetsValid(wb) ==
    /\ wb.readable
    /\ wb.sheets["DISCOVERY"] = Some(DiscoveryCellsValid)
    /\ wb.sheets["ENGAGEMENT"] = Some(EngagementValid)
    /\ wb.sheets["FOLLOWERS"] = Some(FollowersValid)
    /\ wb.sheets["DEMOGRAPHICS"] = Some(DemographicsValid)
    /\ HasSheet(wb, "TOP POSTS")

\* C4: after a successful upload of a workbook whose sheets are all valid,
\* get_discovery_data and the discovery_data of get_engagement_metrics carry
\* all seven discovery fields, the three derived ones non-null.
C4_DerivedFieldsServed ==
    /\ (/\ resp.op = "get_discovery_data"
        /\ resp.seen # None
        /\ AllSheetsValid(resp.seen[1].content)) =>
            /\ resp.out # None
            /\ \A k \in RequiredKeys \cup DerivedKeys : Populated(resp.out[1], k)
    /\ (/\ resp.op = "get_engagement_metrics"
        /\ resp.seen # None
        /\ AllSheetsValid(resp.seen[1].content)) =>
            /\ resp.out.discovery_data # None
            /\ \A k \in RequiredKeys \cup DerivedKeys :
                  Populated(resp.out.discovery_data[1], k)

Min(a, b) == IF a < b THEN a ELSE b

\* C5: for a stored list of N top posts get_top_posts returns exactly
\* min(N, 5) records, in the stored order, ranked 1..min(N, 5).
C5_TopPostsViewAtMostFive ==
    (/\ resp.op = "get_top_posts"
     /\ resp.seen # None
     /\ resp.seen[1].top_posts # None) =>
        /\ resp.out # None
        /\ Len(resp.out[1]) = Min(Len(resp.seen[1].top_posts[1]), 5)
        /\ \A i \in 1..Len(resp.out[1]) :
              /\ resp.out[1][i].rank = i
              /\ resp.out[1][i].url = resp.seen[1].top_posts[1][i].url

\* the record a retrieval asked for is not there: the id is unknown, or the
\* bundle holds nothing under that field
RecordAbsent(field) == resp.seen = None \/ resp.seen[1][field] = None

\* C7: every retrieval view exposes an absent record as absent and never
\* substitutes defaults; get_demographic_insights in particular does not
\* answer with empty category lists when no demographic record exists.
C7_AbsentRecordsExposedAsAbsent ==
    /\ (resp.op = "get_discovery_data" /\ RecordAbsent("discovery_data")) =>
            resp.out = None
    /\ (resp.op = "get_top_posts" /\ RecordAbsent("top_posts")) =>
            resp.out = None
    /\ (resp.op = "get_engagement_metrics" /\ RecordAbsent("discovery_data")) =>
            resp.out.discovery_data = None
    /\ (resp.op = "get_engagement_metrics" /\ RecordAbsent("top_posts")) =>
            resp.out.top_posts = None
    /\ (resp.op = "get_demographic_insights" /\ RecordAbsent("demographics_data")) =>
            ~(/\ resp.out.job_titles = <<>>
              /\ resp.out.locations = <<>>
              /\ resp.out.industries = <<>>)

\* ------------------------------------------------------------ extract_discovery_data (SpecDisc)
\* the cells whose text the parsers accept, with the value each one denotes
RangeOracle ==
    (Text(TxtRange) :> <<Date(2024, 11, 11), Date(2025, 11, 10)>>)
    @@ (Text(TxtRangeReversed) :> <<Date(2025, 11, 10), Date(2024, 11, 11)>>)
CountOracle ==
    (Num(Whole(857000)) :> 857000) @@ (Text(TxtThousands) :> 1234)
    @@ (Text(TxtMinusFive) :> -5) @@ (Num(Whole(297771)) :> 297771)

WellFormedCells(cells) ==
    /\ DOMAIN cells = required_fields
    /\ cells["Overall Performance"] \in DOMAIN RangeOracle
    /\ cells["Impressions"] \in DOMAIN CountOracle
    /\ cells["Members reached"] \in DOMAIN CountOracle

\* the four sheet-read fields of a returned record are what the cells denote
ReadsTheCells(v, cells) ==
    /\ v.start_date = RangeOracle[cells["Overall Performance"]][1]
    /\ v.end_date = RangeOracle[cells["Overall Performance"]][2]
    /\ v.total_impressions = CountOracle[cells["Impressions"]]
    /\ v.members_reached = CountOracle[cells["Members reached"]]

\* C8: extract_discovery_data requires all three labeled cells; when any
\* are missing it fails with a ValueError naming exactly the full set of
\* missing labels; with all three present and well-formed and no file
\* content it returns a record with the four fields read and the three
\* derived fields unset.
C8_RequiredCellsAndFullMissingSet ==
    ret # None =>
        /\ (required_fields \ DOMAIN arg.cells # {}) =>
              /\ ~ret[1].ok
              /\ ret[1].exc = "ValueError"
              /\ ret[1].names = required_fields \ DOMAIN arg.cells
        /\ (WellFormedCells(arg.cells) /\ arg.content = None) =>
              /\ ret[1].ok
              /\ DOMAIN ret[1].v = RequiredKeys \cup DerivedKeys
              /\ ReadsTheCells(ret[1].v, arg.cells)
              /\ \A k \in DerivedKeys : ret[1].v[k] = None

\* extraction has failed on a map that lacks two of the three labels
C8_Witness ==
    /\ ret # None
    /\ ~ret[1].ok
    /\ Cardinality(required_fields \ DOMAIN arg.cells) = 2
    /\ Cardinality(ret[1].names) = 2

\* the contents on which an aggregation of the summary metrics fails: no
\* workbook, a sheet missing, a non-finite engagement, a misplaced header
FailingSummaryContents ==
    {WbUnreadable, WbNoFollowers, WbNoEngagement, WbInfEngagements,
     WbFollowersHeaderInRow1}

\* C9: with file content whose summary metrics fail, discovery extraction
\* still succeeds, the four sheet-read fields populated and the derived
\* fields all unset; in every returned record the three derived fields are
\* all set or all unset.
C9_SummaryFailureLeavesDerivedUnset ==
    ret # None =>
        /\ ret[1].ok =>
              \/ \A k \in DerivedKeys : ret[1].v[k] = None
              \/ \A k \in DerivedKeys : ret[1].v[k] # None
        /\ (/\ WellFormedCells(arg.cells)
            /\ arg.content # None
            /\ \/ arg.content[1] \in FailingSummaryContents
               \/ CountOracle[arg.cells["Impressions"]] < 0) =>
              /\ ret[1].ok
              /\ ReadsTheCells(ret[1].v, arg.cells)
              /\ \A k \in DerivedKeys : ret[1].v[k] = None
        /\ (/\ WellFormedCells(arg.cells)
            /\ arg.content = Some(WbValid)
            /\ CountOracle[arg.cells["Impressions"]] >= 0) =>
              /\ ret[1].ok
              /\ \A k \in DerivedKeys : ret[1].v[k] # None

\* extraction has returned for well-formed cells and a workbook that has no
\* FOLLOWERS sheet
C9_Witness ==
    /\ ret # None
    /\ WellFormedCells(arg.cells)
    /\ arg.content = Some(WbNoFollowers)
    /\ ret[1].ok
    /\ ret[1].v.total_engagements = None

\* ------------------------------------------------------------ calculate_summary_metrics (SpecSummary)
\* the first aggregation, in the order engagements, average, followers,
\* that fails on the given inputs; None when all three succeed
FirstFailing(file_content, total_impressions) ==
    IF ~get_total_engagements(file_content).ok
    THEN Some(Call("get_total_engagements", get_total_engagements(file_content)))
    ELSE IF ~get_average_daily_impressions(total_impressions).ok
    THEN Some(Call("get_average_daily_impressions",
                   get_average_daily_impressions(total_impressions)))
    ELSE IF ~get_new_followers(file_content).ok
    THEN Some(Call("get_new_followers", get_new_followers(file_content)))
    ELSE None

AggregationOrder ==
    <<"get_total_engagements", "get_average_daily_impressions", "get_new_followers">>

\* C10: calculate_summary_metrics is all-or-nothing. It returns the three
\* metrics when all three aggregations succeed; otherwise it fails with the
\* failure of the first failing aggregation, in the order engagements,
\* average, followers, and the later aggregations are not run.
C10_SummaryAllOrNothing ==
    (ret # None /\ ret[1].fn = "calculate_summary_metrics") =>
        With(FirstFailing(arg.file_content, arg.total_impressions), LAMBDA first :
        IF first = None
        THEN /\ ret[1].r.ok
             /\ ret[1].r.v =
                   [total_engagements |-> get_total_engagements(arg.file_content).v,
                    average_impressions_per_day |->
                        get_average_daily_impressions(arg.total_impressions).v,
                    new_followers |-> get_new_followers(arg.file_content).v]
             /\ ret[1].calls = AggregationOrder
        ELSE /\ ~ret[1].r.ok
             /\ ret[1].r.exc = "ValueError"
             /\ ret[1].r.msg = <<"Failed to calculate summary metrics">> \o first[1].r.msg
             /\ ret[1].calls[Len(ret[1].calls)] = first[1].fn
             /\ ret[1].calls = SubSeq(AggregationOrder, 1, Len(ret[1].calls)))

\* the engagements sum up but the followers cannot be found: the function
\* has failed at its third aggregation
C10_Witness ==
    /\ ret # None
    /\ ret[1].fn = "calculate_summary_metrics"
    /\ ~ret[1].r.ok
    /\ ret[1].calls = AggregationOrder
    /\ get_total_engagements(arg.file_content).ok

\* ------------------------------------------------------------ parse_demographics_sheet (SpecDemo)
CategoryKeys ==
    {"job_titles", "locations", "industries", "seniority", "company_size", "companies"}

\* the sheet label each key of the dictionary collects
LabelOf ==
    [k \in CategoryKeys |->
        CASE k = "job_titles" -> TxtJobTitles
          [] k = "locations" -> TxtLocations
          [] k = "industries" -> TxtIndustries
          [] k = "seniority" -> TxtSeniority
          [] k = "company_size" -> TxtCompanySize
          [] OTHER -> TxtCompanies]

\* the data rows of the sheet whose first cell reads exactly this label
RowsLabelled(ws, label) ==
    {r \in 2..Len(ws) : ws[r][1].k = "text" /\ Strip(ws[r][1].s) = label}

\* C6: the dictionary of a parsed DEMOGRAPHICS sheet always has exactly the
\* six category keys, each mapped to a sequence; a row with an unrecognized
\* category label contributes to no key and never makes the extraction
\* fail.
C6_DemographicsAlwaysSixKeys ==
    ret # None =>
        /\ ret[1].ok
        /\ DOMAIN DemographicsToDict(ret[1].v) = CategoryKeys
        /\ \A k \in CategoryKeys :
              /\ DOMAIN DemographicsToDict(ret[1].v)[k]
                    = 1..Len(DemographicsToDict(ret[1].v)[k])
              /\ Len(DemographicsToDict(ret[1].v)[k])
                    <= Cardinality(RowsLabelled(arg, LabelOf[k]))
              /\ \A i \in 1..Len(DemographicsToDict(ret[1].v)[k]) :
                    \E r \in RowsLabelled(arg, LabelOf[k]) :
                        DemographicsToDict(ret[1].v)[k][i].name = Strip(Str(arg[r][2]))

\* a sheet holding a complete row under an unrecognized label next to a
\* recognized row has been parsed
C6_Witness ==
    /\ ret # None
    /\ ret[1].ok
    /\ \E r \in 2..Len(arg) :
          /\ arg[r][1] = Text(TxtTotal)
          /\ arg[r][3] = Num(Fin(250))
    /\ Len(DemographicsToDict(ret[1].v)["job_titles"]) > 0

\* ------------------------------------------------------------ concurrent uploads (Spec)
\* the bundle an extraction of this file alone, with nothing else running,
\* hands to the store
SequentialBundle(file) ==
    [discovery_data |-> CatchValueError(DiscoveryStep(file.content)).v,
     top_posts |-> CatchValueError(TopPostsStep(file.content)).v,
     demographics_data |-> CatchValueError(parse_demographics_sheet(file.content)).v,
     filename |-> file.filename,
     content |-> file.content]

\* what a step may do when invocation t is in flight
IsolatedStep(t) ==
    /\ task[t][1].file_id \notin DOMAIN store
    /\ \A u \in Tasks \ {t} :
          task[u] # None => task[u][1].file_id # task[t][1].file_id
    /\ task'[t] = None =>
          /\ \A i \in DOMAIN store : i \in DOMAIN store' /\ store'[i] = store[i]
          /\ DOMAIN store' \subseteq DOMAIN store \cup {task[t][1].file_id}
          /\ task[t][1].file_id \in DOMAIN store' =>
                store'[task[t][1].file_id] = SequentialBundle(task[t][1].file)
          /\ \A u \in Tasks \ {t} : task'[u] = task[u]

\* C11: however concurrent process_linkedin_file invocations interleave at
\* the awaited read, each one holds a file id of its own, stores under that
\* id the bundle a sequential extraction of its own bytes produces, and
\* neither overwrites nor alters an entry another invocation stored.
C11_ConcurrentUploadsIsolated ==
    [][\A t \in Tasks : task[t] # None => IsolatedStep(t)]_vars

\* both invocations have stored different files, the one that drew its id
\* first having finished last
C11_Witness ==
    /\ DOMAIN store = {1, 2}
    /\ store[1].content # store[2].content
    /\ resp.op = "upload_file"
    /\ resp.status = 200
    /\ resp.out.fileId = 1

\* ------------------------------------------------------------ date ranges (SpecDisc, SpecRange)
\* calendar order of two dates
DateLeq(a, b) ==
    \/ a.y < b.y
    \/ a.y = b.y /\ a.m < b.m
    \/ a.y = b.y /\ a.m = b.m /\ a.d <= b.d

TokenDate(token) ==
    CASE token = TxtStartDate -> Some(Date(2024, 11, 11))
      [] token = TxtEndDate -> Some(Date(2025, 11, 10))
      [] token = TxtLeapDay -> Some(Date(2024, 2, 29))
      [] token = TxtPaddedDate -> Some(Date(2024, 1, 5))
      [] OTHER -> None

\* C13: parse_date_range succeeds exactly when the text holds exactly one
\* separator " - " and both tokens are MM/DD/YYYY calendar dates, and then
\* returns (start, end) in the order written; "11/11/2024 - 11/10/2025"
\* gives (2024-11-11, 2025-11-10). With no separator, with two or more, or
\* with a token that is no date, it fails with a ValueError.
C13_DateRangeOneSeparatorTwoDates ==
    ret # None =>
        /\ IF /\ Len(arg.tokens) = 2
              /\ TokenDate(arg.tokens[1]) # None
              /\ TokenDate(arg.tokens[2]) # None
           THEN /\ ret[1].ok
                /\ ret[1].v = <<TokenDate(arg.tokens[1])[1], TokenDate(arg.tokens[2])[1]>>
           ELSE /\ ~ret[1].ok
                /\ ret[1].exc = "ValueError"
        /\ arg.text = TxtRange =>
              ret[1].ok /\ ret[1].v = <<Date(2024, 11, 11), Date(2025, 11, 10)>>

\* three dates joined by two separators have been refused
C13_Witness ==
    /\ ret # None
    /\ Len(arg.tokens) = 3
    /\ \A i \in 1..3 : TokenDate(arg.tokens[i]) # None
    /\ ~ret[1].ok

\* ------------------------------------------------------------ parse_percentage (SpecPct)
\* the text is a numeral once a "%" suffix and a leading "<" are stripped
NumeralAfterStripping(inp) ==
    /\ inp.core \in {TxtOne, TxtTwelveHalf}
    /\ inp.prefix \in {<<>>, TxtLessThan, TxtLessThanSpace}
    /\ inp.suffix \in {<<>>, TxtPercent, TxtSpacePercent}

NumeralValue(core) == IF core = TxtOne THEN Fin(1000) ELSE Fin(12500)

\* C14: parse_percentage maps the text "< 1%" to exactly 0.005, passes a
\* number through unchanged, parses any other text after stripping a "%"
\* suffix and a leading "<", and fails with a ValueError, returning no
\* value, on every other text that is neither numeric nor the sentinel.
C14_PercentageSentinelAndRejection ==
    ret # None =>
        CASE arg.cell.k = "num" -> ret[1].ok /\ ret[1].v = arg.cell.v
          [] arg.cell.k \in {"empty", "date"} -> ~ret[1].ok /\ ret[1].exc = "ValueError"
          [] arg.cell.s = TxtBelowOne -> ret[1].ok /\ ret[1].v = Fin(5)
          [] NumeralAfterStripping(arg) /\ arg.cell.s # TxtBelowOne ->
                ret[1].ok /\ ret[1].v = NumeralValue(arg.core)
          [] OTHER -> ~ret[1].ok /\ ret[1].exc = "ValueError"

\* ------------------------------------------------------------ demographic rows (SpecDemo)
\* the entries the given rows make, in their order
EntriesOf(rows) ==
    [i \in 1..Len(rows) |->
        [name |-> Strip(Str(rows[i][2])), percentage |-> parse_percentage(rows[i][3]).v]]

\* C15 as stated: the sequence of each category is exactly the source-order
\* subsequence of the data rows whose label is exactly, case-sensitively,
\* the category's name and whose percentage cell normalizes.
C15_RowsByExactLabel ==
    ret # None =>
        /\ ret[1].ok
        /\ \A k \in CategoryKeys :
              DemographicsToDict(ret[1].v)[k]
                = EntriesOf(SelectSeq(Tail(arg),
                      LAMBDA row : /\ row[1] = Text(LabelOf[k])
                                   /\ parse_percentage(row[3]).ok))

\* C15 amended: the sequence of each category is exactly the source-order
\* subsequence of the data rows that hold a category, a value and a
\* percentage cell, whose category label, trimmed, is case-sensitively the
\* category's name, and whose percentage normalizes; a row whose percentage
\* does not normalize is skipped and the rows after it are still read.
C15_CompleteRowsByTrimmedLabel ==
    ret # None =>
        /\ ret[1].ok
        /\ \A k \in CategoryKeys :
              DemographicsToDict(ret[1].v)[k]
                = EntriesOf(SelectSeq(Tail(arg),
                      LAMBDA row : /\ Truthy(row[1])
                                   /\ Truthy(row[2])
                                   /\ row[3].k # "empty"
                                   /\ Strip(Str(row[1])) = LabelOf[k]
                                   /\ parse_percentage(row[3]).ok))

\* a job-title row whose percentage does not parse stands before one whose
\* percentage does, and the later one has been collected
C15_Witness ==
    /\ ret # None
    /\ ret[1].ok
    /\ \E r \in 2..Len(arg), q \in 2..Len(arg) :
          /\ r < q
          /\ arg[r] = <<Text(TxtJobTitles), Text(TxtEngineer), Text(TxtAbc)>>
          /\ arg[q] = <<Text(TxtJobTitles), Text(TxtEngineer), Num(Fin(250))>>
    /\ Len(DemographicsToDict(ret[1].v)["job_titles"]) > 0

\* ------------------------------------------------------------ get_total_engagements (SpecSummary)
\* the leftmost column of the header row that reads "engagements", case and
\* surrounding blanks aside; 0 when none does
EngagementsColumn(header) ==
    IF header[1] \in {Text(TxtEngagements), Text(TxtEngagementsLoud)} THEN 1
    ELSE IF header[2] \in {Text(TxtEngagements), Text(TxtEngagementsLoud)} THEN 2
    ELSE 0

\* what a cell adds to the sum, in thousandths: a number its value, the
\* text "7" seven, any other text and an empty cell nothing
CellAmount(cell) ==
    CASE cell.k = "num" -> cell.v.m
      [] cell = Text(TxtSeven) -> 7000
      [] OTHER -> 0

RECURSIVE AmountFrom(_, _, _)
AmountFrom(ws, col, row) ==
    IF row > Len(ws) THEN 0
    ELSE CellAmount(ws[row][col]) + AmountFrom(ws, col, row + 1)

\* C16: get_total_engagements takes the leftmost header cell of row 1 that
\* reads "engagements", case-insensitively and trimmed, and returns the sum
\* of the numeric cells of that column from row 2 on, truncated to an
\* integer once at the end; non-numeric and empty cells are skipped and do
\* not make it fail; it fails when the ENGAGEMENT sheet is absent or no
\* header matches.
C16_EngagementsSumSkipsNonNumeric ==
    (ret # None /\ ret[1].fn = "get_total_engagements") =>
        IF /\ arg.file_content.readable
           /\ HasSheet(arg.file_content, "ENGAGEMENT")
           /\ EngagementsColumn(SheetOf(arg.file_content, "ENGAGEMENT")[1]) # 0
        THEN /\ ret[1].r.ok
             /\ ret[1].r.v =
                   AmountFrom(SheetOf(arg.file_content, "ENGAGEMENT"),
                              EngagementsColumn(SheetOf(arg.file_content, "ENGAGEMENT")[1]),
                              2) \div 1000
        ELSE /\ ~ret[1].r.ok
             /\ ret[1].r.exc = "ValueError"

\* ------------------------------------------------------------ the store (Spec)
Retrievals ==
    {"get_discovery_data", "get_engagement_metrics", "get_demographic_insights",
     "get_top_posts"}

\* an upload has just been answered with success
UploadSucceeds ==
    /\ resp' # resp
    /\ resp'.op = "upload_file"
    /\ resp'.status = 200

\* what one step may do to the store
StoreFrame ==
    /\ IF UploadSucceeds
       THEN /\ resp'.out.fileId \notin DOMAIN store
            /\ DOMAIN store' = DOMAIN store \cup {resp'.out.fileId}
            /\ \A i \in DOMAIN store : store'[i] = store[i]
            /\ store'[resp'.out.fileId] = SequentialBundle(resp'.file)
       ELSE store' = store
    /\ (resp' # resp /\ resp'.op \in Retrievals) =>
          /\ store' = store
          /\ resp'.seen = get_file_data(store, resp'.file_id)
    /\ (resp'.op \in Retrievals /\ resp'.seen # None) =>
          /\ resp'.file_id \in DOMAIN store'
          /\ store'[resp'.file_id] = resp'.seen[1]

\* C17: an upload refused for its file name, an upload that fails, and
\* every retrieval leave the store unchanged; a successful upload adds
\* exactly one entry, under the file id it returns, and leaves every
\* earlier entry unchanged; so the entry a retrieval finds under an id is
\* the bundle assembled when that id was uploaded.
C17_StoreFrame == [][StoreFrame]_vars

\* a second upload has succeeded beside an earlier entry, and a retrieval
\* of the earlier id has read that entry afterwards
C17_Witness ==
    /\ DOMAIN store = {1, 2}
    /\ resp.op \in Retrievals
    /\ resp.seen # None
    /\ resp.seen[1] = store[resp.file_id]
    /\ store[1] # store[2]
====
